---- MODULE Spec2Model ----
(***************************************************************************)
(* Model of src/main.py: the polar-plant EC dashboard.                     *)
(*                                                                         *)
(* Two parts of the script carry behaviour:                                *)
(*   - find_file_by_normalized_name, the lookup of a data file whose       *)
(*     on-disk name may be stored in another Unicode normalization form;   *)
(*   - the script body, run top to bottom on every render: the two cached  *)
(*     loaders, the empty-data stop, the sidebar and the three tabs.       *)
(*                                                                         *)
(* The dashboard body appears twice in main.py (lines 21-295 and, again    *)
(* verbatim, lines 296-570); the model follows the first copy.             *)
(*                                                                         *)
(* A file name is a sequence of code points.  A code point is a tuple:     *)
(*   <<"A", c>>     a character that normalization leaves alone            *)
(*   <<"L", l>>     a Hangul leading consonant (choseong jamo)             *)
(*   <<"V", v>>     a Hangul vowel (jungseong jamo)                        *)
(*   <<"S", l, v>>  the precomposed Hangul syllable of l and v             *)
(***************************************************************************)
EXTENDS Integers, Sequences, FiniteSets, TLC

VARIABLES
    dir,            \* DATA_DIR as iterdir() yields it: a sequence of entries
    target,         \* the logical name handed to the resolver
    result,         \* resolver results, by the form the target was passed in
    workbook,       \* content of the growth workbook: a sequence of sheets
    env_cache,      \* st.cache_data entry of load_environment_data
    growth_cache,   \* st.cache_data entry of load_growth_data
    env_reads,      \* number of times load_environment_data's body ran
    growth_reads,   \* number of times load_growth_data's body ran
    renders,        \* number of script runs so far
    env_data,       \* script variable env_data of the latest run
    growth_data,    \* script variable growth_data of the latest run
    selected_school,\* script variable selected_school of the latest run
    summary_df,     \* script variable summary_df of the latest run
    best_row,       \* script variable best_row of the latest run
    rendered,       \* the elements the latest run put on the page, in order
    status          \* how the latest run ended

vars == <<dir, target, result, workbook, env_cache, growth_cache, env_reads,
          growth_reads, renders, env_data, growth_data, selected_school,
          summary_df, best_row, rendered, status>>

-----------------------------------------------------------------------------
(* Bounds                                                                  *)

MaxNameLen == 2
MaxEntries == 2
MaxSheets == 2
MaxRenders == 2

-----------------------------------------------------------------------------
(* Code points and names                                                   *)

Chr(c) == <<"A", c>>
Lead(l) == <<"L", l>>
Vowel(v) == <<"V", v>>
Syl(l, v) == <<"S", l, v>>

None == <<>>

\* unicodedata.normalize(form, name) on the code points above.
\* Canonical decomposition: a precomposed syllable becomes its jamo.
Decompose(cp) ==
    IF cp[1] = "S" THEN <<Lead(cp[2]), Vowel(cp[3])>> ELSE <<cp>>

RECURSIVE NFD(_)
NFD(name) ==
    IF name = <<>> THEN <<>> ELSE Decompose(Head(name)) \o NFD(Tail(name))

\* Canonical composition of a decomposed sequence, left to right: a leading
\* consonant directly followed by a vowel becomes the precomposed syllable.
RECURSIVE Compose(_)
Compose(s) ==
    IF Len(s) < 2 THEN s
    ELSE IF s[1][1] = "L" /\ s[2][1] = "V"
         THEN <<Syl(s[1][2], s[2][2])>> \o Compose(Tail(Tail(s)))
         ELSE <<s[1]>> \o Compose(Tail(s))

NFC(name) == Compose(NFD(name))

normalize_name(name, form) ==
    IF form = "NFC" THEN NFC(name)
    ELSE IF form = "NFD" THEN NFD(name)
    ELSE name

-----------------------------------------------------------------------------
(* find_file_by_normalized_name                                            *)

RECURSIVE find_loop(_, _, _, _)
find_loop(base_dir, target_nfc, target_nfd, i) ==
    IF i > Len(base_dir) THEN None
    ELSE IF ~base_dir[i].is_file
         THEN find_loop(base_dir, target_nfc, target_nfd, i + 1)
         ELSE LET name_nfc == normalize_name(base_dir[i].name, "NFC")
                  name_nfd == normalize_name(base_dir[i].name, "NFD")
              IN  IF name_nfc = target_nfc \/ name_nfd = target_nfd
                  THEN base_dir[i].name
                  ELSE find_loop(base_dir, target_nfc, target_nfd, i + 1)

\* Mutant: the on-disk name is compared as stored, never normalized.
RECURSIVE find_disk_raw_loop(_, _, _)
find_disk_raw_loop(base_dir, target_nfc, i) ==
    IF i > Len(base_dir) THEN None
    ELSE IF base_dir[i].is_file /\ base_dir[i].name = target_nfc
         THEN base_dir[i].name
         ELSE find_disk_raw_loop(base_dir, target_nfc, i + 1)

find_disk_raw(base_dir, target_name) ==
    find_disk_raw_loop(base_dir, normalize_name(target_name, "NFC"), 1)

\* Mutant: plain string comparison, no normalization on either side.
RECURSIVE find_exact_loop(_, _, _)
find_exact_loop(base_dir, target_name, i) ==
    IF i > Len(base_dir) THEN None
    ELSE IF base_dir[i].is_file /\ base_dir[i].name = target_name
         THEN base_dir[i].name
         ELSE find_exact_loop(base_dir, target_name, i + 1)

find_exact(base_dir, target_name) == find_exact_loop(base_dir, target_name, 1)

\* Mutant: the is_file() test is missing.
RECURSIVE find_any_entry_loop(_, _, _, _)
find_any_entry_loop(base_dir, target_nfc, target_nfd, i) ==
    IF i > Len(base_dir) THEN None
    ELSE IF NFC(base_dir[i].name) = target_nfc \/ NFD(base_dir[i].name) = target_nfd
         THEN base_dir[i].name
         ELSE find_any_entry_loop(base_dir, target_nfc, target_nfd, i + 1)

find_any_entry(base_dir, target_name) ==
    find_any_entry_loop(base_dir, NFC(target_name), NFD(target_name), 1)

find_file_by_normalized_name(base_dir, target_name) ==
    LET target_nfc == normalize_name(target_name, "NFC")
        target_nfd == normalize_name(target_name, "NFD")
    IN  find_loop(base_dir, target_nfc, target_nfd, 1)

-----------------------------------------------------------------------------
(* The resolver on its own: every small name against small directories     *)

CodePoints == {Chr("x"), Lead("g"), Vowel("a"), Syl("g", "a")}

Names == UNION {[1..n -> CodePoints] : n \in 1..MaxNameLen}

\* The names worth putting next to a target: every encoding of the target
\* within the bound, and the one-code-point names as unrelated entries.
RelevantNames(n) == {m \in Names : NFC(m) = NFC(n) \/ Len(m) = 1}

\* The listings of a directory around target n.  A directory never holds two
\* entries with the same stored name; an entry is a regular file or not.
DirectoriesFor(n) ==
    {d \in UNION {[1..k -> [name : RelevantNames(n), is_file : BOOLEAN]] :
                     k \in 0..MaxEntries} :
        \A i, j \in 1..Len(d) : i # j => d[i].name # d[j].name}

Forms == {"raw", "NFC", "NFD"}

NotCalled == <<Chr("not called")>>

InitResolve ==
    /\ target \in Names
    /\ dir \in DirectoriesFor(target)
    /\ result = [f \in Forms |-> NotCalled]
    /\ workbook = <<>>
    /\ env_cache = None
    /\ growth_cache = None
    /\ env_reads = 0
    /\ growth_reads = 0
    /\ renders = 0
    /\ env_data = <<>>
    /\ growth_data = <<>>
    /\ selected_school = None
    /\ summary_df = <<>>
    /\ best_row = None
    /\ rendered = <<>>
    /\ status = "idle"

Resolve(form) ==
    /\ result[form] = NotCalled
    /\ result' = [result EXCEPT ![form] =
                    find_file_by_normalized_name(dir, normalize_name(target, form))]
    /\ UNCHANGED <<dir, target, workbook, env_cache, growth_cache, env_reads,
                   growth_reads, renders, env_data, growth_data, selected_school,
                   summary_df, best_row, rendered, status>>

ResolveAsGiven == Resolve("raw")
ResolveComposed == Resolve("NFC")
ResolveDecomposed == Resolve("NFD")

NextResolve == ResolveAsGiven \/ ResolveComposed \/ ResolveDecomposed

SpecResolve == InitResolve /\ [][NextResolve]_vars

-----------------------------------------------------------------------------
(* The data directory and the tables of the dashboard                      *)

\* The file and school names, each Hangul run abbreviated to its first
\* syllable: "송도고_환경데이터.csv" is 송 + "_" + 환 + ".csv".
Songdo == <<Syl("s", "o")>>
Haneul == <<Syl("h", "a")>>
Ara == <<Syl("ng", "a")>>
Dongsan == <<Syl("d", "o")>>

EnvFileOf(school) == school \o <<Chr("_"), Syl("h", "wa"), Chr(".csv")>>

ENV_FILES == <<EnvFileOf(Songdo), EnvFileOf(Haneul), EnvFileOf(Ara), EnvFileOf(Dongsan)>>

xlsx_name == <<Chr("4"), Syl("g", "ae"), Chr("_"), Syl("s", "ae"), Chr(".xlsx")>>

\* EC_MAP: its keys in insertion order, and the mapping.
EC_KEYS == <<Songdo, Haneul, Ara, Dongsan>>

EC_MAP == (Songdo :> 1) @@ (Haneul :> 2) @@ (Ara :> 4) @@ (Dongsan :> 8)

\* fname.split("_")[0]: the code points before the first underscore.
RECURSIVE split_prefix(_)
split_prefix(fname) ==
    IF fname = <<>> \/ Head(fname) = Chr("_") THEN <<>>
    ELSE <<Head(fname)>> \o split_prefix(Tail(fname))

\* A school's mean of a column is a fraction; a column without values has the
\* mean NaN, written with the denominator 0.
RECURSIVE Sum(_)
Sum(xs) == IF xs = <<>> THEN 0 ELSE Head(xs) + Sum(Tail(xs))

mean(xs) == [num |-> Sum(xs), den |-> Len(xs)]

IsNaN(m) == m.den = 0

\* IEEE comparison of two means: every comparison with NaN is false.
Greater(a, b) == ~IsNaN(a) /\ ~IsNaN(b) /\ a.num * b.den > b.num * a.den
GreaterEq(a, b) == ~IsNaN(a) /\ ~IsNaN(b) /\ a.num * b.den >= b.num * a.den

-----------------------------------------------------------------------------
(* The cached loaders                                                      *)

\* Mutant: the cache is never consulted.
cache_never_hit(cache) == FALSE

\* st.cache_data: a call whose result is already stored does not run the body.
cache_hit(cache) == cache # <<>>

\* The body of load_environment_data: the loop over ENV_FILES from index i.
\* value is the dict env_data in insertion order, messages the st.error
\* elements the body emitted (st.cache_data replays them on a cache hit).
RECURSIVE load_environment_loop(_, _)
load_environment_loop(d, i) ==
    IF i > Len(ENV_FILES) THEN [value |-> <<>>, messages |-> <<>>]
    ELSE LET fname == ENV_FILES[i]
             file_path == find_file_by_normalized_name(d, fname)
             rest == load_environment_loop(d, i + 1)
         IN  IF file_path = None
             THEN [value |-> rest.value,
                   messages |-> <<[kind |-> "error", what |-> "file not found",
                                   name |-> fname]>> \o rest.messages]
             ELSE [value |-> <<[school |-> split_prefix(fname),
                                file |-> file_path]>> \o rest.value,
                   messages |-> rest.messages]

load_environment_body(d) == load_environment_loop(d, 1)

\* The body of load_growth_data: one table per sheet, school = sheet name.
load_growth_body(d, wb) ==
    IF find_file_by_normalized_name(d, xlsx_name) = None
    THEN [value |-> <<>>,
          messages |-> <<[kind |-> "error", what |-> "growth xlsx not found",
                          name |-> None]>>]
    ELSE [value |-> [k \in 1..Len(wb) |->
                        [school |-> wb[k].sheet, weights |-> wb[k].weights]],
          messages |-> <<>>]

load_environment_data(cache, d) ==
    IF cache_hit(cache) THEN cache[1] ELSE load_environment_body(d)

load_growth_data(cache, d, wb) ==
    IF cache_hit(cache) THEN cache[1] ELSE load_growth_body(d, wb)

-----------------------------------------------------------------------------
(* The script body                                                         *)

All == <<Chr("all")>>

schools == <<All>> \o EC_KEYS

Keys(tables) == {tables[k].school : k \in 1..Len(tables)}

\* Mutant: the run stops only when both dicts are empty.
no_data_both(env, growth) == env = <<>> /\ growth = <<>>

\* not env_data or not growth_data
no_data(env, growth) == env = <<>> \/ growth = <<>>

\* EC_MAP.get(school): None for a school that has no entry.  The optional
\* value is written <<v>>, and None is the empty sequence.
ec_get(school) == IF school \in DOMAIN EC_MAP THEN <<EC_MAP[school]>> ELSE None

\* Tab 1: the overview table and the four metrics.
tab1(env, growth) ==
    <<[kind |-> "tab1.table",
       rows |-> [k \in 1..Len(growth) |->
                    [school |-> growth[k].school,
                     ec_target |-> ec_get(growth[k].school),
                     count |-> Len(growth[k].weights)]]],
      [kind |-> "tab1.metric", label |-> "total count",
       value |-> Sum([k \in 1..Len(growth) |-> Len(growth[k].weights)])],
      [kind |-> "tab1.metric", label |-> "mean temperature", schools |-> Keys(env)],
      [kind |-> "tab1.metric", label |-> "mean humidity", schools |-> Keys(env)],
      [kind |-> "tab1.optimal", label |-> "optimal EC", ec |-> 2, school |-> Haneul]>>

\* Tab 2: the per-school averages, then the time series of the selected school.
tab2(env, selected) ==
    LET avg_df == [k \in 1..Len(env) |->
                      [school |-> env[k].school, target_ec |-> EC_MAP[env[k].school]]]
        chart == <<[kind |-> "tab2.averages", rows |-> avg_df]>>
    IN  IF selected = All
        THEN [ok |-> TRUE, elements |-> chart]
        ELSE IF selected \notin Keys(env)
        THEN [ok |-> FALSE,
              elements |-> chart \o <<[kind |-> "exception", type |-> "KeyError",
                                       at |-> "env_data[selected_school]",
                                       key |-> selected]>>]
        ELSE [ok |-> TRUE,
              elements |-> chart \o <<[kind |-> "tab2.timeseries", school |-> selected,
                                       target_ec |-> EC_MAP[selected]]>>]

\* Mutant: a later row replaces the best on a tie.
RECURSIVE idxmax_last_loop(_, _, _)
idxmax_last_loop(values, i, best) ==
    IF i > Len(values) THEN best
    ELSE IF IsNaN(values[i]) THEN idxmax_last_loop(values, i + 1, best)
    ELSE IF best = 0 \/ GreaterEq(values[i], values[best])
         THEN idxmax_last_loop(values, i + 1, i)
         ELSE idxmax_last_loop(values, i + 1, best)

idxmax_last(values) == idxmax_last_loop(values, 1, 0)

\* Series.idxmax(): the label of the first occurrence of the maximum, NaN
\* skipped; 0 stands for the failure on a series without any value.
RECURSIVE idxmax_loop(_, _, _)
idxmax_loop(values, i, best) ==
    IF i > Len(values) THEN best
    ELSE IF IsNaN(values[i]) THEN idxmax_loop(values, i + 1, best)
    ELSE IF best = 0 \/ Greater(values[i], values[best])
         THEN idxmax_loop(values, i + 1, i)
         ELSE idxmax_loop(values, i + 1, best)

idxmax(values) == idxmax_loop(values, 1, 0)

\* The summary rows of tab 3, for tables whose schools all have an EC.
summary_rows(growth) ==
    [k \in 1..Len(growth) |->
        [school |-> growth[k].school,
         EC |-> EC_MAP[growth[k].school],
         weight |-> mean(growth[k].weights),
         count |-> Len(growth[k].weights)]]

\* Tab 3: the summary, the best row and its metric, then the charts.
tab3(growth) ==
    IF \E k \in 1..Len(growth) : growth[k].school \notin DOMAIN EC_MAP
    THEN LET k == CHOOSE j \in 1..Len(growth) :
                    /\ growth[j].school \notin DOMAIN EC_MAP
                    /\ \A h \in 1..(j - 1) : growth[h].school \in DOMAIN EC_MAP
         IN  [ok |-> FALSE, summary |-> <<>>, best |-> None,
              elements |-> <<[kind |-> "exception", type |-> "KeyError",
                              at |-> "EC_MAP[school]", key |-> growth[k].school]>>]
    ELSE LET summary == summary_rows(growth)
             best == idxmax([k \in 1..Len(summary) |-> summary[k].weight])
         IN  IF best = 0
             THEN [ok |-> FALSE, summary |-> summary, best |-> None,
                   elements |-> <<[kind |-> "exception", type |-> "ValueError",
                                   at |-> "idxmax", key |-> None]>>]
             ELSE [ok |-> TRUE, summary |-> summary, best |-> <<summary[best]>>,
                   elements |-> <<[kind |-> "tab3.metric", label |-> "max mean weight",
                                   value |-> summary[best].weight,
                                   ec |-> summary[best].EC, school |-> Haneul],
                                  [kind |-> "tab3.charts", rows |-> summary]>>]

-----------------------------------------------------------------------------
(* The dashboard session: renders of the script and changes of the disk    *)

RequiredFiles == ENV_FILES \o <<xlsx_name>>

\* The listing of a data directory that stores its names in one form and
\* holds the required files numbered in present.
RECURSIVE Listing(_, _, _)
Listing(form, present, i) ==
    IF i > Len(RequiredFiles) THEN <<>>
    ELSE (IF i \in present
          THEN <<[name |-> normalize_name(RequiredFiles[i], form), is_file |-> TRUE]>>
          ELSE <<>>) \o Listing(form, present, i + 1)

DataDirs ==
    {Listing(form, present, 1) :
        form \in {"NFC", "NFD"}, present \in SUBSET (1..Len(RequiredFiles))}

\* Sheet names: two schools of EC_MAP and a name EC_MAP does not hold.
SheetNames == {Songdo, Haneul, <<Chr("Sheet1")>>}

WeightLists == {<<>>, <<2>>, <<1, 3>>, <<3>>}

\* A workbook has at least one sheet and no two sheets of the same name.
Workbooks ==
    {wb \in UNION {[1..n -> [sheet : SheetNames, weights : WeightLists]] :
                      n \in 1..MaxSheets} :
        \A i, j \in 1..Len(wb) : i # j => wb[i].sheet # wb[j].sheet}

Init ==
    /\ dir \in DataDirs
    /\ workbook \in (IF find_file_by_normalized_name(dir, xlsx_name) = None
                     THEN {<<>>} ELSE Workbooks)
    /\ target = None
    /\ result = [f \in Forms |-> NotCalled]
    /\ env_cache = <<>>
    /\ growth_cache = <<>>
    /\ env_reads = 0
    /\ growth_reads = 0
    /\ renders = 0
    /\ env_data = <<>>
    /\ growth_data = <<>>
    /\ selected_school = None
    /\ summary_df = <<>>
    /\ best_row = None
    /\ rendered = <<>>
    /\ status = "idle"

Shown(kind) == \E k \in 1..Len(rendered) : rendered[k].kind = kind

\* One run of the script.  The selectbox holds its first option until the
\* user, who can only use a selectbox that was drawn, picks another one.
Render(selected) ==
    /\ renders < MaxRenders
    /\ selected = All \/ Shown("sidebar")
    /\ LET env == load_environment_data(env_cache, dir)
           growth == load_growth_data(growth_cache, dir, workbook)
           messages == env.messages \o growth.messages
       IN  /\ env_cache' = <<env>>
           /\ growth_cache' = <<growth>>
           /\ env_reads' = IF cache_hit(env_cache) THEN env_reads ELSE env_reads + 1
           /\ growth_reads' = IF cache_hit(growth_cache) THEN growth_reads
                              ELSE growth_reads + 1
           /\ env_data' = env.value
           /\ growth_data' = growth.value
           /\ IF no_data(env.value, growth.value)
              THEN /\ rendered' = messages \o <<[kind |-> "error", what |-> "no data",
                                                 name |-> None]>>
                   /\ status' = "stopped"
                   /\ selected_school' = None
                   /\ summary_df' = <<>>
                   /\ best_row' = None
              ELSE LET head == <<[kind |-> "sidebar", options |-> schools,
                                  value |-> selected],
                                 [kind |-> "title"], [kind |-> "tabs"]>>
                       t1 == tab1(env.value, growth.value)
                       t2 == tab2(env.value, selected)
                       t3 == tab3(growth.value)
                   IN  /\ selected_school' = selected
                       /\ IF t2.ok
                          THEN /\ rendered' = messages \o head \o t1 \o t2.elements
                                                  \o t3.elements
                               /\ status' = IF t3.ok THEN "done" ELSE "failed"
                               /\ summary_df' = t3.summary
                               /\ best_row' = t3.best
                          ELSE /\ rendered' = messages \o head \o t1 \o t2.elements
                               /\ status' = "failed"
                               /\ summary_df' = <<>>
                               /\ best_row' = None
    /\ renders' = renders + 1
    /\ UNCHANGED <<dir, target, result, workbook>>

\* Between two renders the data files are deleted from the disk.
DeleteDataFiles ==
    /\ renders < MaxRenders
    /\ dir # <<>>
    /\ dir' = <<>>
    /\ UNCHANGED <<target, result, workbook, env_cache, growth_cache, env_reads,
                   growth_reads, renders, env_data, growth_data, selected_school,
                   summary_df, best_row, rendered, status>>

Next == (\E selected \in {schools[k] : k \in 1..Len(schools)} : Render(selected))
            \/ DeleteDataFiles

Spec == Init /\ [][Next]_vars

-----------------------------------------------------------------------------
(* Properties of the resolver, checked under SpecResolve                   *)

\* Entry i of the directory is a regular file that the resolver's test accepts.
Matches(d, i, n) ==
    /\ d[i].is_file
    /\ (NFC(d[i].name) = NFC(n) \/ NFD(d[i].name) = NFD(n))

Candidates(d, n) == {i \in 1..Len(d) : Matches(d, i, n)}

FirstMatch(d, n) ==
    IF Candidates(d, n) = {} THEN None
    ELSE d[CHOOSE i \in Candidates(d, n) : \A j \in Candidates(d, n) : i <= j].name

\* C1 (existence): when the directory holds a regular file whose NFC name
\* equals NFC(target), resolving target returns a path, never None.
C1_Existence ==
    (/\ result["raw"] # NotCalled
     /\ \E i \in 1..Len(dir) : dir[i].is_file /\ NFC(dir[i].name) = NFC(target))
    => result["raw"] # None

\* The file is stored decomposed, the target is given composed, and it is found.
C1_Witness ==
    /\ result["raw"] # NotCalled
    /\ result["raw"] # None
    /\ result["raw"] # target
    /\ NFC(target) = target
    /\ NFD(result["raw"]) = result["raw"]
    /\ NFC(result["raw"]) = NFC(target)

\* C2 (normalization independence): with exactly one matching candidate on
\* disk, resolving NFC(target) and resolving NFD(target) return the same entry.
C2_NormalizationIndependence ==
    (/\ result["NFC"] # NotCalled
     /\ result["NFD"] # NotCalled
     /\ Cardinality(Candidates(dir, target)) = 1)
    => result["NFC"] = result["NFD"]

\* One candidate, the two encodings of the target differ, the name is stored
\* decomposed, and both lookups return that stored entry.
C2_Witness ==
    /\ result["NFC"] # NotCalled
    /\ result["NFD"] # NotCalled
    /\ Cardinality(Candidates(dir, target)) = 1
    /\ NFC(target) # NFD(target)
    /\ result["NFC"] # None
    /\ result["NFC"] = result["NFD"]
    /\ result["NFC"] = NFD(target)

\* C3 (first match): the result is the first entry, in iteration order, that
\* is a regular file and matches under NFC or under NFD; an entry that is not
\* a regular file is never returned; with no such entry the result is None.
C3_FirstRegularMatch ==
    result["raw"] # NotCalled =>
        /\ result["raw"] = FirstMatch(dir, target)
        /\ result["raw"] # None =>
              \E i \in 1..Len(dir) : dir[i].name = result["raw"] /\ dir[i].is_file
        /\ Candidates(dir, target) = {} => result["raw"] = None

\* A matching name that is not a regular file comes first and is passed over
\* for the matching regular file behind it.
C3_Witness ==
    /\ result["raw"] # NotCalled
    /\ Len(dir) = 2
    /\ ~dir[1].is_file
    /\ NFC(dir[1].name) = NFC(target)
    /\ result["raw"] = dir[2].name

\* Nothing matches and the resolver answers None.
C3_WitnessNotFound ==
    /\ result["raw"] = None
    /\ Len(dir) > 0

-----------------------------------------------------------------------------
(* Properties of the dashboard session, checked under Spec                 *)

SameMean(a, b) == ~IsNaN(a) /\ ~IsNaN(b) /\ a.num * b.den = b.num * a.den

\* The position in summary_df of the row held in best_row.
BestIndex == CHOOSE k \in 1..Len(summary_df) : summary_df[k] = best_row[1]

\* C4 as stated: the row idxmax selects has a mean fresh weight greater than
\* or equal to that of every row of the summary, and it is the first of the
\* rows that share the maximum.
C4_MaxOfEveryRow ==
    best_row # None =>
        /\ \E k \in 1..Len(summary_df) : summary_df[k] = best_row[1]
        /\ \A k \in 1..Len(summary_df) :
              GreaterEq(best_row[1].weight, summary_df[k].weight)
        /\ \A k \in 1..Len(summary_df) :
              SameMean(summary_df[k].weight, best_row[1].weight) => BestIndex <= k

\* C4 amended: the row idxmax selects has a defined mean fresh weight that is
\* greater than or equal to every defined mean of the summary (the mean of a
\* sheet without fresh-weight values is NaN and is skipped), and it is the
\* first of the rows that share the maximum.
C4_MaxOfDefinedRows ==
    best_row # None =>
        /\ \E k \in 1..Len(summary_df) : summary_df[k] = best_row[1]
        /\ ~IsNaN(best_row[1].weight)
        /\ \A k \in 1..Len(summary_df) :
              ~IsNaN(summary_df[k].weight) =>
                  GreaterEq(best_row[1].weight, summary_df[k].weight)
        /\ \A k \in 1..Len(summary_df) :
              SameMean(summary_df[k].weight, best_row[1].weight) => BestIndex <= k

\* Two schools share the maximum through different observations and the
\* first of them is selected.
C4_Witness ==
    /\ best_row # None
    /\ Len(summary_df) = 2
    /\ summary_df[1].weight # summary_df[2].weight
    /\ SameMean(summary_df[1].weight, summary_df[2].weight)
    /\ best_row[1] = summary_df[1]

\* C5 as stated: a school of the loaded tables without an entry in EC_MAP
\* makes the render end in a failure (or in the empty-data stop), and no
\* produced table shows that school with an empty target concentration.
C5_MissingMappingFailsLoudly ==
    status # "idle" =>
        \A school \in Keys(env_data) \cup Keys(growth_data) :
            school \notin DOMAIN EC_MAP =>
                /\ status \in {"failed", "stopped"}
                /\ \A k \in 1..Len(rendered) :
                      rendered[k].kind = "tab1.table" =>
                          \A r \in 1..Len(rendered[k].rows) :
                              rendered[k].rows[r].school = school =>
                                  rendered[k].rows[r].ec_target # None

\* C6 as stated: a required file that was not resolved is reported by its
\* logical name and stops the run, so no tab that depends on it is drawn.
C6_UnresolvedFileStops ==
    status # "idle" =>
        /\ \A i \in 1..Len(ENV_FILES) :
              split_prefix(ENV_FILES[i]) \notin Keys(env_data) =>
                  /\ \E k \in 1..Len(rendered) :
                        /\ rendered[k].kind = "error"
                        /\ rendered[k].name = ENV_FILES[i]
                  /\ status = "stopped"
                  /\ ~Shown("tab1.table")
                  /\ ~Shown("tab2.averages")
        /\ growth_data = <<>> =>
              /\ \E k \in 1..Len(rendered) :
                    /\ rendered[k].kind = "error"
                    /\ rendered[k].what = "growth xlsx not found"
              /\ status = "stopped"
              /\ ~Shown("tab1.table")
              /\ ~Shown("tab3.charts")

C8_Step ==
    /\ env_cache # <<>> => (env_cache' = env_cache /\ env_reads' = env_reads)
    /\ growth_cache # <<>> =>
          (growth_cache' = growth_cache /\ growth_reads' = growth_reads)
    /\ renders' # renders =>
          /\ env_cache' # <<>> /\ growth_cache' # <<>>
          /\ env_data' = env_cache'[1].value
          /\ growth_data' = growth_cache'[1].value
          /\ status' = "done" => summary_df' = summary_rows(growth_data')

\* C8 (load once): each loader reads its files at most once; once loaded the
\* tables never change, every render receives exactly them, and a render that
\* completes has recomputed the summary from them.
C8_LoadOnce ==
    /\ [](env_reads <= 1 /\ growth_reads <= 1)
    /\ [][C8_Step]_vars

\* The second render completes from the cached tables although the files
\* were deleted after the first one.
C8_Witness ==
    /\ renders = 2
    /\ dir = <<>>
    /\ status = "done"
    /\ env_data # <<>>
    /\ env_reads = 1
    /\ growth_reads = 1

\* C9 as stated: the school and concentration shown as optimal in tab 1 and
\* tab 3 are those of the row idxmax selected in this render.
C9_OptimalFromBestRow ==
    best_row # None =>
        \A k \in 1..Len(rendered) :
            rendered[k].kind \in {"tab1.optimal", "tab3.metric"} =>
                /\ rendered[k].school = best_row[1].school
                /\ rendered[k].ec = best_row[1].EC

\* C10 as stated: every school the selectbox offers, other than "all", is a
\* key of env_data, and the lookup env_data[selected_school] never fails.
C10_OfferedSchoolsLoaded ==
    \A k \in 1..Len(rendered) :
        /\ rendered[k].kind = "sidebar" =>
              \A o \in 1..Len(rendered[k].options) :
                  rendered[k].options[o] # All =>
                      rendered[k].options[o] \in Keys(env_data)
        /\ ~(rendered[k].kind = "exception" /\ rendered[k].at = "env_data[selected_school]")

====
